---- MODULE Spec2Model ----
(***************************************************************************)
(* Class constants of econolab: the descriptor class_constant and the      *)
(* metaclass MyMeta, with the class statements and the attribute           *)
(* operations of the accompanying notebook.                                *)
(*                                                                         *)
(* A class is a record: whether MyMeta built it, its method resolution     *)
(* order, its __dict__ and its __constants__ attribute.  Each class built  *)
(* by MyMeta has one instance, whose __dict__ is kept in idict.  res is    *)
(* the outcome of the last operation: the value read, or the exception     *)
(* raised with its message.  born keeps each class as its class statement  *)
(* left it, for the properties that compare a later state with it.         *)
(***************************************************************************)
EXTENDS Naturals, Sequences, FiniteSets

VARIABLES classes, idict, res, nwrites, born

vars == <<classes, idict, res, nwrites, born>>

(***************************************************************************)
(* The universe of the notebook: its class names in the order of their     *)
(* class statements, its attribute names and its literals.                 *)
(***************************************************************************)
TypeOrder == <<"A", "B", "C", "D">>

TypeNames == {TypeOrder[i] : i \in 1..Len(TypeOrder)}

NameOrder == <<"foo", "bar", "gaz">>

Names == {NameOrder[i] : i \in 1..Len(NameOrder)}

\* attribute names a behaviour uses, the first of NameOrder
MaxNames == 2

UsedNames == {NameOrder[i] : i \in 1..MaxNames}

\* the literal a class statement of T writes in its body
Lit(T) == CASE T = "A" -> "42"
            [] T = "B" -> "hello there"
            [] T = "C" -> "0"
            [] T = "D" -> "-1"

\* the value the notebook's later cells try to write
WriteValues == {"hello"}

\* Python's None
None == "None"

Values == {Lit(T) : T \in TypeNames} \cup WriteValues \cup {None}

\* the name of the attribute that publishes the constant names of a class
ConstantsAttr == "__constants__"

\* successful writes (type attributes, instance storage, published sets) a
\* behaviour makes besides its class statements
MaxWrites == 1

\* class statements a behaviour runs
MaxClasses == 3

\* bases a class statement may list
MaxBases == 2

\* the number of classes of a program that has a lazy or a decorated body
MaxDeclaredClasses == 2

(***************************************************************************)
(* Entries of a __dict__.  kind "none": no entry; "plain": an ordinary     *)
(* value; "const": a class_constant, with the value its getter returns and *)
(* the name __set_name__ bound ("" before any binding).                    *)
(***************************************************************************)
NoEntry == [kind |-> "none", value |-> None, name |-> "", fget |-> ""]

Plain(v) == [kind |-> "plain", value |-> v, name |-> "", fget |-> ""]

\* class_constant.__init__: a descriptor around the getter fget, which
\* returns v; self.name = None
class_constant_init(fget, v) == [kind |-> "const", value |-> v, name |-> "", fget |-> fget]

\* MyMeta._make_class_constant: class_constant(lambda _: value)
_make_class_constant(value) == class_constant_init("lambda", value)

\* class_constant.__set_name__: self.name = name
class_constant_set_name(slot, name) == [slot EXCEPT !.name = name]

\* isinstance(x, class_constant)
IsClassConstant(entry) == entry.kind = "const"

EmptyDict == [n \in Names |-> NoEntry]

NoClass == [defined |-> FALSE, meta |-> FALSE, mro |-> <<>>,
            dict |-> EmptyDict, attrs |-> {}, has |-> FALSE, constants |-> {}]

EmptyStorage == [n \in Names |-> NoEntry]

Range(s) == {s[i] : i \in 1..Len(s)}

Min(S) == CHOOSE x \in S : \A y \in S : x <= y

InTail(x, s) == \E i \in 2..Len(s) : s[i] = x

Remove(s, x) == SelectSeq(s, LAMBDA y : y # x)

(***************************************************************************)
(* The host's method resolution order (C3): the class, then the merge of   *)
(* the orders of its bases and the list of bases.  A merge that cannot     *)
(* proceed yields MroConflict, and the class statement raises TypeError.   *)
(***************************************************************************)
MroConflict == "TypeError"

RECURSIVE C3Merge(_)
C3Merge(seqs) ==
    LET ne == SelectSeq(seqs, LAMBDA s : s # <<>>)
    IN  IF ne = <<>> THEN <<>>
        ELSE LET cands == {i \in 1..Len(ne) :
                              \A j \in 1..Len(ne) : ~InTail(Head(ne[i]), ne[j])}
             IN  IF cands = {} THEN <<MroConflict>>
                 ELSE LET h == Head(ne[Min(cands)])
                      IN  <<h>> \o C3Merge([j \in 1..Len(ne) |-> Remove(ne[j], h)])

Linearize(cs, T, bases) ==
    <<T>> \o C3Merge([i \in 1..Len(bases) |-> cs[bases[i]].mro] \o <<bases>>)

(***************************************************************************)
(* cls.__dict__.get(name, None) on a class record c.  The published set    *)
(* lives in the class's __dict__ under ConstantsAttr like any attribute.   *)
(***************************************************************************)
DictGet(c, name) ==
    IF name \in Names THEN c.dict[name]
    ELSE IF name = ConstantsAttr /\ c.has
         THEN [kind |-> "set", value |-> None, name |-> ""]
         ELSE NoEntry

\* the first class of an order whose own __dict__ has an entry for name, or 0
FirstHolder(cs, order, name) ==
    LET hs == {i \in 1..Len(order) : DictGet(cs[order[i]], name).kind # "none"}
    IN  IF hs = {} THEN 0 ELSE Min(hs)

\* ordinary attribute resolution along an order: the entry found, or NoEntry
MroLookup(cs, order, name) ==
    LET i == FirstHolder(cs, order, name)
    IN  IF i = 0 THEN NoEntry ELSE DictGet(cs[order[i]], name)

\* getattr(base, "__constants__", set())
GetConstants(cs, base) ==
    LET i == FirstHolder(cs, cs[base].mro, ConstantsAttr)
    IN  IF i = 0 THEN {} ELSE cs[cs[base].mro[i]].constants

\* a guard that looks only at the entry name resolves to
_is_class_constant_resolved(cs, name, order) ==
    IsClassConstant(MroLookup(cs, order, name))

\* a guard that looks only at the class's own __dict__
_is_class_constant_own(cs, name, order) ==
    IsClassConstant(DictGet(cs[order[1]], name))

\* a guard that looks only at the classes after the first of the order
_is_class_constant_inherited(cs, name, order) ==
    \E i \in 2..Len(order) : IsClassConstant(DictGet(cs[order[i]], name))

\* MyMeta._is_class_constant(name, classes): some class of the order holds a
\* class_constant under name in its own __dict__
_is_class_constant(cs, name, order) ==
    \E i \in 1..Len(order) : IsClassConstant(DictGet(cs[order[i]], name))

(***************************************************************************)
(* A class body: the names __constant_attrs__ lists and the other entries  *)
(* of the namespace.                                                       *)
(***************************************************************************)
Body(declared, ns) == [declared |-> declared, ns |-> ns]

OneEntry(n, e) == [m \in Names |-> IF m = n THEN e ELSE NoEntry]

EmptyBody == Body({}, EmptyDict)

\* the bodies a class statement of T may have over the names ns: empty
\* (class C), a declared constant with its literal (classes A, B, D), or an
\* ordinary attribute
BodyMenu(T, ns) ==
    {EmptyBody}
    \cup {Body({n}, OneEntry(n, Plain(Lit(T)))) : n \in ns}
    \cup {Body({}, OneEntry(n, Plain(Lit(T)))) : n \in ns}

\* the bodies that declare a name without an entry for it, and the bodies
\* that declare a name whose entry they made with @class_constant
LazyBodies(ns) == {Body({n}, EmptyDict) : n \in ns}

DecoratedBodies(T, ns) ==
    {Body({n}, OneEntry(n, class_constant_init("def", Lit(T)))) : n \in ns}

\* a promotion that skips the declared names the body has no entry for
Promote_present_only(body) ==
    [n \in Names |->
        IF n \in body.declared /\ body.ns[n].kind = "plain"
        THEN _make_class_constant(body.ns[n].value)
        ELSE body.ns[n]]

\* a promotion that wraps every declared name, a class_constant too
Promote_wrapping(body) ==
    [n \in Names |->
        IF n \in body.declared
        THEN _make_class_constant(IF body.ns[n].kind = "none" THEN None
                                  ELSE body.ns[n].value)
        ELSE body.ns[n]]

\* MyMeta.__new__, lines 109-114: __constant_attrs__ is popped; every declared
\* name that is not already a class_constant is popped (None when missing)
\* and wrapped
Promote(body) ==
    [n \in Names |->
        IF n \in body.declared /\ ~IsClassConstant(body.ns[n])
        THEN _make_class_constant(IF body.ns[n].kind = "none" THEN None
                                  ELSE body.ns[n].value)
        ELSE body.ns[n]]

\* type.__new__: the namespace becomes the __dict__, and __set_name__ runs on
\* every entry that defines it
type_new(cs, T, isMeta, bases, namespace) ==
    [defined |-> TRUE, meta |-> isMeta, mro |-> Linearize(cs, T, bases),
     dict |-> [n \in Names |-> IF IsClassConstant(namespace.ns[n])
                               THEN class_constant_set_name(namespace.ns[n], n)
                               ELSE namespace.ns[n]],
     attrs |-> namespace.declared,
     has |-> FALSE, constants |-> {}]

\* a collection that takes the inherited names from the one __constants__
\* attribute the new class resolves
CollectConstants_resolved(cs, T, declared) ==
    declared
    \cup {n \in Names : IsClassConstant(cs[T].dict[n])}
    \cup GetConstants(cs, T)

\* MyMeta.__new__, lines 118-123: the declared names, the class_constants of
\* the new __dict__, and what every class of the order publishes
CollectConstants(cs, T, declared) ==
    declared
    \cup {n \in Names : IsClassConstant(cs[T].dict[n])}
    \cup UNION {GetConstants(cs, cs[T].mro[i]) : i \in 1..Len(cs[T].mro)}

\* a construction that stores no set of its own, so that the new class
\* resolves __constants__ to the set object of an ancestor
MyMeta_new_shared(cs, T, bases, body) ==
    [cs EXCEPT ![T] = type_new(cs, T, TRUE, bases, Body({}, Promote(body)))]

\* MyMeta.__new__: the classes after the class statement
MyMeta_new(cs, T, bases, body) ==
    LET built == [cs EXCEPT ![T] = type_new(cs, T, TRUE, bases, Body({}, Promote(body)))]
    IN  [built EXCEPT ![T].has = TRUE,
                      ![T].constants = CollectConstants(built, T, body.declared)]

(***************************************************************************)
(* The state after the module is loaded: no class statement has run.       *)
(***************************************************************************)
NoResult == [op |-> "none", cls |-> "", name |-> "", exc |-> "none",
             value |-> None, msg |-> <<>>]

Returned(op, T, name, v) ==
    [op |-> op, cls |-> T, name |-> name, exc |-> "none", value |-> v, msg |-> <<>>]

Raised(op, T, name, msg) ==
    [op |-> op, cls |-> T, name |-> name, exc |-> "AttributeError",
     value |-> None, msg |-> msg]

Init ==
    /\ classes = [T \in TypeNames |-> NoClass]
    /\ idict = [T \in TypeNames |-> EmptyStorage]
    /\ res = NoResult
    /\ nwrites = 0
    /\ born = [T \in TypeNames |-> NoClass]

Defined == {T \in TypeNames : classes[T].defined}

MetaClasses == {T \in Defined : classes[T].meta}

\* the class statements run in the order of TypeOrder
NextType == TypeOrder[Cardinality(Defined) + 1]

Injective(s) == \A i, j \in 1..Len(s) : s[i] = s[j] => i = j

BaseLists ==
    {b \in UNION {[1..k -> Defined] : k \in 0..MaxBases} : Injective(b)}

\* the names already in use in some class, and the names a new body may use:
\* those, and the next one of NameOrder
Introduced == {n \in Names : \E T \in Defined : classes[T].dict[n].kind # "none"}

BodyNames ==
    {NameOrder[i] : i \in 1..Min({MaxNames, Cardinality(Introduced) + 1})}

(***************************************************************************)
(* A class statement, with or without metaclass=MyMeta.  The metaclass     *)
(* of the new class is MyMeta when it is given or a base was built by it.  *)
(* A class built by type alone is the notebook's: no bases, an empty body. *)
(***************************************************************************)
ClassStatement(T, isMeta, bases, body) ==
    /\ ~isMeta => bases = <<>> /\ body = EmptyBody
    /\ MroConflict \notin Range(Linearize(classes, T, bases))
    /\ classes' = IF isMeta THEN MyMeta_new(classes, T, bases, body)
                  ELSE [classes EXCEPT ![T] = type_new(classes, T, FALSE, bases, body)]
    /\ isMeta => ~_is_class_constant(classes', ConstantsAttr, classes'[T].mro)
    /\ res' = Returned("class", T, "", None)
    /\ born' = [born EXCEPT ![T] = classes'[T]]
    /\ UNCHANGED <<idict, nwrites>>

(***************************************************************************)
(* Messages, as the sequence of their words and punctuation marks, so that *)
(* two messages are equal exactly when their texts are.                    *)
(***************************************************************************)
\* class_constant.__repr__: f"class constant '{self.name}'"
class_constant_repr(slot) == <<"class", "constant", "'", slot.name, "'">>

\* a message that ends like a deletion's
class_constant_set_as_delete(slot, T) ==
    class_constant_repr(slot)
        \o <<"of", "'", T, "'", "object", "cannot", "be", "deleted", ".">>

\* class_constant.__set__ raises
\* f"{self} of '{type(instance).__name__}' object cannot be modified."
class_constant_set(slot, T) ==
    class_constant_repr(slot)
        \o <<"of", "'", T, "'", "object", "cannot", "be", "modified", ".">>

\* class_constant.__delete__ raises
\* f"{self} of '{type(instance).__name__}' object cannot be deleted."
class_constant_delete(slot, T) ==
    class_constant_repr(slot)
        \o <<"of", "'", T, "'", "object", "cannot", "be", "deleted", ".">>

\* class_constant.__get__: the getter's value, whether reached through an
\* instance or (instance = owner) through the class
class_constant_get(slot) == slot.value

\* MyMeta.__setattr__ raises f"Cannot modify class constant '{cls.__name__}.{name}'."
SetattrMessage(T, name) ==
    <<"Cannot", "modify", "class", "constant", "'", T, ".", name, "'", ".">>

\* MyMeta.__delattr__ raises f"Cannot delete class constant '{cls.__name__}.{name}'."
DelattrMessage(T, name) ==
    <<"Cannot", "delete", "class", "constant", "'", T, ".", name, "'", ".">>

\* the host's message for a missing attribute of a class / of an instance
TypeMissing(T, name) ==
    <<"type", "object", "'", T, "'", "has", "no", "attribute", "'", name, "'">>

ObjectMissing(T, name) ==
    <<"'", T, "'", "object", "has", "no", "attribute", "'", name, "'">>

(***************************************************************************)
(* What each operation returns or raises in the current state.             *)
(***************************************************************************)
\* MyMeta.__setattr__(cls, name, value)
SetattrOutcome(T, name) ==
    IF _is_class_constant(classes, name, classes[T].mro)
    THEN Raised("type_set", T, name, SetattrMessage(T, name))
    ELSE Returned("type_set", T, name, None)

\* MyMeta.__delattr__(cls, name): the guard, then the host's deletion from
\* the class's own __dict__
DelattrOutcome(T, name) ==
    IF _is_class_constant(classes, name, classes[T].mro)
    THEN Raised("type_del", T, name, DelattrMessage(T, name))
    ELSE IF DictGet(classes[T], name).kind = "none"
    THEN Raised("type_del", T, name, TypeMissing(T, name))
    ELSE Returned("type_del", T, name, None)

\* T.name: the class_constant's getter, or the ordinary value
TypeRead(T, name) ==
    LET e == MroLookup(classes, classes[T].mro, name)
    IN  IF IsClassConstant(e) THEN Returned("type_get", T, name, class_constant_get(e))
        ELSE IF e.kind = "plain" THEN Returned("type_get", T, name, e.value)
        ELSE Raised("type_get", T, name, TypeMissing(T, name))

\* i.name for an instance of T with storage st: the host gives a data
\* descriptor found on the class precedence over the instance's __dict__
InstRead(T, name, st) ==
    LET e == MroLookup(classes, classes[T].mro, name)
    IN  IF IsClassConstant(e) THEN Returned("inst_get", T, name, class_constant_get(e))
        ELSE IF st[name].kind # "none" THEN Returned("inst_get", T, name, st[name].value)
        ELSE IF e.kind = "plain" THEN Returned("inst_get", T, name, e.value)
        ELSE Raised("inst_get", T, name, ObjectMissing(T, name))

\* i.name = value: class_constant.__set__ when the class resolves name to a
\* class_constant, the instance's __dict__ otherwise
InstSetOutcome(T, name) ==
    LET e == MroLookup(classes, classes[T].mro, name)
    IN  IF IsClassConstant(e) THEN Raised("inst_set", T, name, class_constant_set(e, T))
        ELSE Returned("inst_set", T, name, None)

\* del i.name: class_constant.__delete__, or the instance's __dict__
InstDelOutcome(T, name, st) ==
    LET e == MroLookup(classes, classes[T].mro, name)
    IN  IF IsClassConstant(e) THEN Raised("inst_del", T, name, class_constant_delete(e, T))
        ELSE IF st[name].kind = "none"
        THEN Raised("inst_del", T, name, ObjectMissing(T, name))
        ELSE Returned("inst_del", T, name, None)

\* T.__constants__ as read through the class or through an instance
Published(T) == GetConstants(classes, T)

(***************************************************************************)
(* Operations on a class object built by MyMeta.  The operations name      *)
(* attributes that exist: a read or a deletion that ends in the host's     *)
(* missing-attribute error is no step of a behaviour.                      *)
(***************************************************************************)
Write(ok) == IF ok THEN nwrites < MaxWrites /\ nwrites' = nwrites + 1
             ELSE UNCHANGED nwrites

\* an assignment that binds the name before the guard raises
MyMeta_setattr_write_first(T, name, value) ==
    /\ T \in MetaClasses
    /\ res' = SetattrOutcome(T, name)
    /\ Write(res'.exc = "none")
    /\ classes' = [classes EXCEPT ![T].dict[name] = Plain(value)]
    /\ UNCHANGED <<idict, born>>

\* T.name = value
MyMeta_setattr(T, name, value) ==
    /\ T \in MetaClasses
    /\ res' = SetattrOutcome(T, name)
    /\ Write(res'.exc = "none")
    /\ classes' = IF res'.exc = "none"
                  THEN [classes EXCEPT ![T].dict[name] = Plain(value)]
                  ELSE classes
    /\ UNCHANGED <<idict, born>>

\* del T.name
MyMeta_delattr(T, name) ==
    /\ T \in MetaClasses
    /\ res' = DelattrOutcome(T, name)
    /\ res'.msg # TypeMissing(T, name)
    /\ Write(res'.exc = "none")
    /\ classes' = IF res'.exc = "none"
                  THEN [classes EXCEPT ![T].dict[name] = NoEntry]
                  ELSE classes
    /\ UNCHANGED <<idict, born>>

TypeGetAttr(T, name) ==
    /\ T \in MetaClasses
    /\ res' = TypeRead(T, name)
    /\ res'.exc = "none"
    /\ UNCHANGED <<classes, idict, nwrites, born>>

(***************************************************************************)
(* The published set: MyMeta.__new__ stores it as an ordinary attribute of *)
(* the class, holding a mutable set.                                       *)
(***************************************************************************)
\* T.__constants__ = value
MyMeta_setattr_constants(T, value) ==
    /\ T \in MetaClasses
    /\ res' = SetattrOutcome(T, ConstantsAttr)
    /\ Write(res'.exc = "none")
    /\ classes' = IF res'.exc = "none"
                  THEN [classes EXCEPT ![T].has = TRUE, ![T].constants = value]
                  ELSE classes
    /\ UNCHANGED <<idict, born>>

\* del T.__constants__
MyMeta_delattr_constants(T) ==
    /\ T \in MetaClasses
    /\ res' = DelattrOutcome(T, ConstantsAttr)
    /\ res'.msg # TypeMissing(T, ConstantsAttr)
    /\ Write(res'.exc = "none")
    /\ classes' = IF res'.exc = "none"
                  THEN [classes EXCEPT ![T].has = FALSE, ![T].constants = {}]
                  ELSE classes
    /\ UNCHANGED <<idict, born>>

\* T.__constants__.add(name) / .discard(name): the set object that attribute
\* resolution finds is changed in place
ConstantsMutate(T, name, add) ==
    /\ T \in MetaClasses
    /\ LET i == FirstHolder(classes, classes[T].mro, ConstantsAttr)
       IN  /\ i # 0
           /\ IF add THEN name \notin classes[classes[T].mro[i]].constants
                     ELSE name \in classes[classes[T].mro[i]].constants
           /\ classes' = [classes EXCEPT ![classes[T].mro[i]].constants =
                             IF add THEN @ \cup {name} ELSE @ \ {name}]
    /\ Write(TRUE)
    /\ res' = Returned("set_mutate", T, name, None)
    /\ UNCHANGED <<idict, born>>

(***************************************************************************)
(* Operations on the instance of a class.                                  *)
(***************************************************************************)
InstGetAttr(T, name) ==
    /\ T \in MetaClasses
    /\ res' = InstRead(T, name, idict[T])
    /\ res'.exc = "none"
    /\ UNCHANGED <<classes, idict, nwrites, born>>

InstSetAttr(T, name, value) ==
    /\ T \in MetaClasses
    /\ res' = InstSetOutcome(T, name)
    /\ Write(res'.exc = "none")
    /\ idict' = IF res'.exc = "none"
                THEN [idict EXCEPT ![T][name] = Plain(value)]
                ELSE idict
    /\ UNCHANGED <<classes, born>>

InstDelAttr(T, name) ==
    /\ T \in MetaClasses
    /\ res' = InstDelOutcome(T, name, idict[T])
    /\ res'.msg # ObjectMissing(T, name)
    /\ Write(res'.exc = "none")
    /\ idict' = IF res'.exc = "none"
                THEN [idict EXCEPT ![T][name] = NoEntry]
                ELSE idict
    /\ UNCHANGED <<classes, born>>

\* i.__dict__[name] = value
InstDictWrite(T, name, value) ==
    /\ T \in MetaClasses
    /\ Write(TRUE)
    /\ idict' = [idict EXCEPT ![T][name] = Plain(value)]
    /\ res' = Returned("dict_set", T, name, None)
    /\ UNCHANGED <<classes, born>>

\* some class has a constant of a lazy or a decorated body
HasLazyOrDecorated ==
    \E T \in Defined : \E n \in Names :
        /\ IsClassConstant(classes[T].dict[n])
        /\ classes[T].dict[n].fget = "def" \/ classes[T].dict[n].value = None

\* class statements with a lazy or a decorated body, in programs of up to
\* MaxDeclaredClasses classes
ClassStatementsDeclared ==
    /\ Cardinality(Defined) < MaxDeclaredClasses
    /\ \E bases \in BaseLists :
        \E body \in LazyBodies(BodyNames) \cup DecoratedBodies(NextType, BodyNames) :
            ClassStatement(NextType, TRUE, bases, body)

ClassStatements ==
    /\ Cardinality(Defined) < MaxClasses
    /\ HasLazyOrDecorated => Cardinality(Defined) < MaxDeclaredClasses
    /\ Cardinality(Defined) < Len(TypeOrder)
    /\ \E isMeta \in BOOLEAN, bases \in BaseLists, body \in BodyMenu(NextType, BodyNames) :
          ClassStatement(NextType, isMeta, bases, body)

\* the notebook's classes A, B and C, and with D
NotebookABC ==
    LET a == MyMeta_new([T \in TypeNames |-> NoClass], "A", <<>>,
                        Body({"foo"}, OneEntry("foo", Plain(Lit("A")))))
        b == MyMeta_new(a, "B", <<"A">>,
                        Body({"bar"}, OneEntry("bar", Plain(Lit("B")))))
    IN  [b EXCEPT !["C"] = type_new(b, "C", FALSE, <<>>, EmptyBody)]

NotebookABCD ==
    MyMeta_new(NotebookABC, "D", <<"C", "B">>,
               Body({"gaz"}, OneEntry("gaz", Plain(Lit("D")))))

\* class D(C, B): __constant_attrs__ = {"gaz"}; gaz = -1, after the
\* notebook's A, B and C
ClassStatementD ==
    /\ classes = NotebookABC
    /\ ClassStatement("D", TRUE, <<"C", "B">>,
                      Body({"gaz"}, OneEntry("gaz", Plain(Lit("D")))))

\* d = D(): the instance is one of the class defined last
Instantiated == {T \in Defined : T = TypeOrder[Cardinality(Defined)]}

\* T.__constants__ = set()
SetValues == {{}}

\* the names operations are tried on: those the class bodies may use, and
\* every name some class binds
OpNames == UsedNames \cup Introduced

Next ==
    \/ ClassStatements
    \/ ClassStatementsDeclared
    \/ ClassStatementD
    \/ \E T \in Defined, name \in OpNames, value \in WriteValues :
          MyMeta_setattr(T, name, value)
    \/ \E T \in Defined, name \in OpNames : MyMeta_delattr(T, name)
    \/ \E T \in Defined, name \in OpNames : TypeGetAttr(T, name)
    \/ \E T \in Defined, value \in SetValues : MyMeta_setattr_constants(T, value)
    \/ \E T \in Defined : MyMeta_delattr_constants(T)
    \/ \E T \in Defined, name \in OpNames, add \in BOOLEAN : ConstantsMutate(T, name, add)
    \/ \E T \in Instantiated, name \in OpNames : InstGetAttr(T, name)
    \/ \E T \in Instantiated, name \in OpNames, value \in WriteValues :
          InstSetAttr(T, name, value)
    \/ \E T \in Instantiated, name \in OpNames : InstDelAttr(T, name)
    \/ \E T \in Instantiated, name \in OpNames, value \in WriteValues :
          InstDictWrite(T, name, value)

Spec == Init /\ [][Next]_vars

(***************************************************************************)
(* Vocabulary of the properties.                                           *)
(***************************************************************************)
\* an error raised by class_constant or by MyMeta's guard (Immutable-Modify,
\* Immutable-Delete), as opposed to the host's missing-attribute error
ModifyRejected(r) ==
    /\ r.exc = "AttributeError"
    /\ r.msg \in {SetattrMessage(r.cls, r.name)}
                 \cup {class_constant_set(class_constant_set_name(NoEntry, n), r.cls) :
                          n \in Names}

DeleteRejected(r) ==
    /\ r.exc = "AttributeError"
    /\ r.msg \in {DelattrMessage(r.cls, r.name)}
                 \cup {class_constant_delete(class_constant_set_name(NoEntry, n), r.cls) :
                          n \in Names}

\* the classes of T's inheritance order
Ancestry(T) == Range(classes[T].mro)

\* the names under which T's own finished namespace held a class_constant
OwnConstants(T) == {n \in Names : IsClassConstant(born[T].dict[n])}

\* the names T declared or inherited: a class of its order held a
\* class_constant under them when it was built
DeclaredConstants(T) == UNION {OwnConstants(A) : A \in Ancestry(T)}

\* the first class of T's order that declared N as a constant
Declarer(T, N) ==
    classes[T].mro[Min({i \in 1..Len(classes[T].mro) :
                            N \in OwnConstants(classes[T].mro[i])})]

\* the names of T's published set that T declared or inherited
ConstantNames(T) == Published(T) \cap DeclaredConstants(T)

\* C1: for every class T built by MyMeta and every name N of its published
\* set that T declared or inherited, T.N = v and del T.N raise
\* (Immutable-Modify, Immutable-Delete) in every state after T's class
\* statement; no assignment or deletion on the class object succeeds.
C1_TypeLevelRejected ==
    \A T \in MetaClasses : \A N \in ConstantNames(T) :
        /\ ModifyRejected(SetattrOutcome(T, N))
        /\ DeleteRejected(DelattrOutcome(T, N))

\* an inherited constant was the target of a rejected assignment on the class
C1_Witness ==
    /\ res.op = "type_set"
    /\ ModifyRejected(res)
    /\ res.name \in ConstantNames(res.cls) \ OwnConstants(res.cls)

\* C2 (as claimed): for every class T, every name N of its published set that
\* T declared or inherited and the instance i of T, i.N = v and del i.N
\* raise (Immutable-Modify, Immutable-Delete), whatever the bodies of the
\* classes between the declaring ancestor and T contain.
C2_InstanceLevelRejected ==
    \A T \in MetaClasses : \A N \in ConstantNames(T) :
        /\ ModifyRejected(InstSetOutcome(T, N))
        /\ DeleteRejected(InstDelOutcome(T, N, idict[T]))

\* C3 (as claimed): the published set of a class contains the published set
\* of every class of its inheritance order, in every state.
C3_PublishedMonotone ==
    \A T \in MetaClasses : \A A \in Ancestry(T) :
        GetConstants(classes, A) \subseteq Published(T)

\* C4 (as claimed): reading a constant N through T and through the instance
\* of T returns the value of the most specific class of T's order that
\* declared N, and the two reads agree.
C4_ReadsMostSpecific ==
    \A T \in MetaClasses : \A N \in ConstantNames(T) :
        LET v == born[Declarer(T, N)].dict[N].value
        IN  /\ TypeRead(T, N) = Returned("type_get", T, N, v)
            /\ InstRead(T, N, idict[T]) = Returned("inst_get", T, N, v)

\* C5: once a class_constant is bound to N in T's own namespace, T.N reads
\* the value it had when T's class statement ended, in every later state:
\* after any assignment or deletion on classes or instances, any write into
\* instance storage, any write of a published set and any later class
\* statement.
C5_OwnValueFixed ==
    \A T \in MetaClasses : \A N \in OwnConstants(T) :
        TypeRead(T, N) = Returned("type_get", T, N, born[T].dict[N].value)

\* a class's own constant was read after a write and after a subclass of it
\* was defined
C5_Witness ==
    /\ res.op = "type_get"
    /\ res.name \in OwnConstants(res.cls)
    /\ nwrites > 0
    /\ \E S \in MetaClasses \ {res.cls} : res.cls \in Ancestry(S)

\* C6 (as claimed): for the instance of T and every constant name N of T, an
\* entry written under N into the instance's storage does not change what
\* i.N returns: the read yields the constant's value, not the injected one.
C6_StorageNeverWins ==
    \A T \in MetaClasses : \A N \in ConstantNames(T) : \A v \in WriteValues :
        LET r == InstRead(T, N, [idict[T] EXCEPT ![N] = Plain(v)])
        IN  /\ r = InstRead(T, N, idict[T])
            /\ r.value = born[Declarer(T, N)].dict[N].value

\* C7 (as claimed): the published set of a class is the one its class
\* statement computed, in every later state.
C7_PublishedWriteOnce ==
    \A T \in MetaClasses :
        classes[T].has /\ classes[T].constants = born[T].constants

\* C8: when a class statement has built T, T's published set is exactly the
\* names under which T's own namespace holds a class_constant together with
\* the published sets of the other classes of T's inheritance order; for
\* the notebook's A{foo}, B(A){bar}, empty C and D(C, B){gaz} it is
\* {foo, bar, gaz}.
C8_PublishedIsUnion ==
    /\ (res.op = "class" /\ res.cls \in MetaClasses) =>
            Published(res.cls) =
                {n \in Names : IsClassConstant(classes[res.cls].dict[n])}
                \cup UNION {GetConstants(classes, A) : A \in Ancestry(res.cls) \ {res.cls}}
    /\ (res.op = "class" /\ res.cls = "D" /\ born["D"] = NotebookABCD["D"]) =>
            Published("D") = {"foo", "bar", "gaz"}

\* the notebook's class statements have run, D(C, B) the last
C8_Witness ==
    /\ res.op = "class"
    /\ res.cls = "D"
    /\ classes = NotebookABCD
    /\ classes["D"].mro = <<"D", "C", "B", "A">>
    /\ OwnConstants("D") = {"gaz"}

\* C9 (as claimed): T.N = v and del T.N raise exactly when N is in T's
\* published set and N resolves along T's order to a class_constant; every
\* other assignment or deletion is delegated and takes effect.
C9_GuardAsClaimed ==
    \A T \in MetaClasses : \A N \in Names :
        LET guarded == /\ N \in Published(T)
                       /\ IsClassConstant(MroLookup(classes, classes[T].mro, N))
        IN  /\ ModifyRejected(SetattrOutcome(T, N)) <=> guarded
            /\ DeleteRejected(DelattrOutcome(T, N)) <=> guarded
            /\ ~guarded => /\ SetattrOutcome(T, N).exc = "none"
                           /\ DelattrOutcome(T, N).exc = "none"

\* C9 (amended): T.N = v and del T.N raise exactly when T or a class of
\* T's order declared N as a constant, whatever T's published set holds and
\* whatever entry N resolves to; every other assignment is delegated and
\* binds N in T's own namespace; every other deletion is delegated and
\* removes N from T's own namespace when it is there, and raises the host's
\* missing-attribute error when it is not.
C9_GuardExact ==
    /\ \A T \in MetaClasses : \A N \in Names :
        LET declared == N \in DeclaredConstants(T)
        IN  /\ ModifyRejected(SetattrOutcome(T, N)) <=> declared
            /\ DeleteRejected(DelattrOutcome(T, N)) <=> declared
            /\ ~declared =>
                /\ SetattrOutcome(T, N).exc = "none"
                /\ IF classes[T].dict[N] = NoEntry
                   THEN DelattrOutcome(T, N).msg = TypeMissing(T, N)
                   ELSE DelattrOutcome(T, N).exc = "none"
    /\ (res.op = "type_set" /\ res.name \in Names /\ res.exc = "none") =>
            /\ classes[res.cls].dict[res.name] \in {Plain(v) : v \in WriteValues}
            /\ TypeRead(res.cls, res.name).value \in WriteValues
    /\ (res.op = "type_del" /\ res.name \in Names /\ res.exc = "none") =>
            classes[res.cls].dict[res.name] = NoEntry

\* an assignment on a class was rejected for a name that resolves to an
\* ordinary attribute, because a class further along the order declared it
C9_Witness ==
    /\ res.op = "type_set"
    /\ ModifyRejected(res)
    /\ ~IsClassConstant(MroLookup(classes, classes[res.cls].mro, res.name))
    /\ res.name \in DeclaredConstants(res.cls)

\* the texts as claimed, without the word "class"
ClaimedSetText(T, N) ==
    <<"constant", "'", N, "'", "of", "'", T, "'", "object", "cannot", "be", "modified", ".">>

ClaimedDeleteText(T, N) ==
    <<"constant", "'", N, "'", "of", "'", T, "'", "object", "cannot", "be", "deleted", ".">>

ClaimedSetattrText(T, N) ==
    <<"Cannot", "modify", "constant", "'", T, ".", N, "'", ".">>

ClaimedDelattrText(T, N) ==
    <<"Cannot", "delete", "constant", "'", T, ".", N, "'", ".">>

\* C10 (as claimed): a rejected instance-level operation says
\* "constant '<N>' of '<T>' object cannot be modified." (or "deleted."),
\* T being the instance's class and not the declaring class; a rejected
\* type-level operation says "Cannot modify constant '<T>.<N>'." (or
\* "delete").
C10_TextsAsClaimed ==
    \A T \in MetaClasses : \A N \in Names :
        /\ InstSetOutcome(T, N).exc = "AttributeError" =>
                InstSetOutcome(T, N).msg = ClaimedSetText(T, N)
        /\ DeleteRejected(InstDelOutcome(T, N, idict[T])) =>
                InstDelOutcome(T, N, idict[T]).msg = ClaimedDeleteText(T, N)
        /\ SetattrOutcome(T, N).exc = "AttributeError" =>
                SetattrOutcome(T, N).msg = ClaimedSetattrText(T, N)
        /\ DeleteRejected(DelattrOutcome(T, N)) =>
                DelattrOutcome(T, N).msg = ClaimedDelattrText(T, N)

\* C10 (amended): a rejected instance-level operation says
\* "class constant '<N>' of '<T>' object cannot be modified." (or
\* "deleted."), T being the instance's class and not the declaring class; a
\* rejected type-level operation says "Cannot modify class constant
\* '<T>.<N>'." (or "delete"), T being the class operated on.
C10_TextsExact ==
    \A T \in MetaClasses : \A N \in Names :
        /\ InstSetOutcome(T, N).exc = "AttributeError" =>
                InstSetOutcome(T, N).msg =
                    <<"class", "constant", "'", N, "'", "of", "'", T, "'",
                      "object", "cannot", "be", "modified", ".">>
        /\ (/\ InstDelOutcome(T, N, idict[T]).exc = "AttributeError"
            /\ InstDelOutcome(T, N, idict[T]).msg # ObjectMissing(T, N)) =>
                InstDelOutcome(T, N, idict[T]).msg =
                    <<"class", "constant", "'", N, "'", "of", "'", T, "'",
                      "object", "cannot", "be", "deleted", ".">>
        /\ SetattrOutcome(T, N).exc = "AttributeError" =>
                SetattrOutcome(T, N).msg =
                    <<"Cannot", "modify", "class", "constant", "'", T, ".", N, "'", ".">>
        /\ (/\ DelattrOutcome(T, N).exc = "AttributeError"
            /\ DelattrOutcome(T, N).msg # TypeMissing(T, N)) =>
                DelattrOutcome(T, N).msg =
                    <<"Cannot", "delete", "class", "constant", "'", T, ".", N, "'", ".">>

\* an instance-level assignment to an inherited constant was rejected with a
\* message that names the instance's class
C10_Witness ==
    /\ res.op = "inst_set"
    /\ res.exc = "AttributeError"
    /\ res.name \in DeclaredConstants(res.cls) \ OwnConstants(res.cls)
    /\ res.msg = <<"class", "constant", "'", res.name, "'", "of", "'", res.cls, "'",
                   "object", "cannot", "be", "modified", ".">>

\* C11: a rejected operation mutates nothing: a step in which an assignment
\* or a deletion on a class or on an instance raises AttributeError leaves
\* every class's __dict__, order and published set and every instance's
\* storage as they were.
C11_RejectedChangesNothing ==
    [][(/\ res'.exc = "AttributeError"
        /\ res'.op \in {"type_set", "type_del", "inst_set", "inst_del"})
            => (classes' = classes /\ idict' = idict)]_vars

\* a deletion through the instance was rejected while the instance's storage
\* held an entry under the constant's name, and the entry is still there
C11_Witness ==
    /\ res.op = "inst_del"
    /\ DeleteRejected(res)
    /\ res.name \in ConstantNames(res.cls)
    /\ idict[res.cls][res.name] # NoEntry

\* the class a step's class statement builds
Built(T) == ~classes[T].defined /\ classes'[T].defined

\* C12: a class statement that builds T changes nothing on the classes that
\* exist: their __dict__ entries, slot values and published sets are
\* unchanged; the published set of a T built by MyMeta is a set object of
\* T's own, which attribute resolution finds on T and on no ancestor; and a
\* name T declares again is a class_constant in T's own __dict__, while
\* the ancestor's slot and what the ancestor reads stay as they were.
C12_ConstructionFrame ==
    [][\A T \in TypeNames : Built(T) =>
        /\ \A A \in TypeNames \ {T} : classes'[A] = classes[A]
        /\ idict' = idict
        /\ classes'[T].meta =>
            /\ FirstHolder(classes', classes'[T].mro, ConstantsAttr) = 1
            /\ \A A \in Range(classes'[T].mro) \ {T} : \A N \in Names :
                  (IsClassConstant(classes'[T].dict[N]) /\ IsClassConstant(classes[A].dict[N])) =>
                      /\ classes'[A].dict[N] = classes[A].dict[N]
                      /\ TypeRead(A, N)' = TypeRead(A, N)
                      /\ TypeRead(T, N)'.value = classes'[T].dict[N].value]_vars

\* a class statement has just built a class that declares again a constant
\* of an ancestor, with another value
C12_Witness ==
    /\ res.op = "class"
    /\ res.cls \in MetaClasses
    /\ \E N \in OwnConstants(res.cls) : \E A \in Ancestry(res.cls) \ {res.cls} :
          /\ N \in OwnConstants(A)
          /\ TypeRead(A, N).value = born[A].dict[N].value
          /\ TypeRead(res.cls, N).value # TypeRead(A, N).value

\* the step is MyMeta's class statement of T with these bases
BasesOf(T, bases) ==
    /\ Built(T)
    /\ classes'[T].meta
    /\ Len(bases) < Len(classes'[T].mro)
    /\ classes'[T].mro = Linearize(classes, T, bases)

\* ... and with this body; the entries the body does not declare are looked
\* at first
StatementOf(T, bases, body) ==
    /\ \A n \in Names \ body.declared : classes'[T].dict[n] = body.ns[n]
    /\ classes' = MyMeta_new(classes, T, bases, body)

\* C13: a class statement whose body declares a name it has no entry for
\* raises nothing: the new class holds a class_constant under the name that
\* reads None through the class and through an instance, the name is in the
\* class's published set, and assignment and deletion of it are rejected on
\* the class and on an instance.
C13_LazyDeclaration ==
    [][\A T \in TypeNames : Built(T) =>
        \A bases \in BaseLists : BasesOf(T, bases) =>
        \A body \in LazyBodies(Names) :
            StatementOf(T, bases, body) =>
                \A n \in body.declared :
                    /\ res'.exc = "none"
                    /\ classes'[T].dict[n] =
                            class_constant_set_name(_make_class_constant(None), n)
                    /\ TypeRead(T, n)' = Returned("type_get", T, n, None)
                    /\ InstRead(T, n, idict[T])' = Returned("inst_get", T, n, None)
                    /\ (n \in Published(T))'
                    /\ ModifyRejected(SetattrOutcome(T, n))'
                    /\ DeleteRejected(DelattrOutcome(T, n))'
                    /\ ModifyRejected(InstSetOutcome(T, n))'
                    /\ DeleteRejected(InstDelOutcome(T, n, idict[T]))']_vars

\* a class statement has just built a class that declared, without an entry,
\* a name an ancestor binds: the class reads None under it
C13_Witness ==
    /\ res.op = "class"
    /\ res.cls \in MetaClasses
    /\ \E n \in Published(res.cls) :
          /\ classes[res.cls].dict[n] = class_constant_set_name(_make_class_constant(None), n)
          /\ TypeRead(res.cls, n).value = None
          /\ \E A \in Ancestry(res.cls) \ {res.cls} : classes[A].dict[n].value # None

\* C14: a class statement keeps, for each declared name, the class_constant
\* the body holds under it: the same getter, not wrapped; any other declared
\* entry is replaced by a new class_constant whose read returns the raw
\* value.  In both cases the slot's name is the declared name, and
\* __constant_attrs__ is no attribute of the new class.
C14_DeclaredPromotion ==
    [][\A T \in TypeNames : Built(T) =>
        \A bases \in BaseLists : BasesOf(T, bases) =>
        \A body \in BodyMenu(T, Names) \cup DecoratedBodies(T, Names) \cup LazyBodies(Names) :
            StatementOf(T, bases, body) =>
                /\ \A A \in Range(classes'[T].mro) : classes'[A].attrs = {}
                /\ \A n \in body.declared :
                    /\ classes'[T].dict[n].name = n
                    /\ IsClassConstant(body.ns[n]) =>
                            /\ classes'[T].dict[n] = [body.ns[n] EXCEPT !.name = n]
                            /\ classes'[T].dict[n].fget = "def"
                    /\ body.ns[n].kind = "plain" =>
                            /\ IsClassConstant(classes'[T].dict[n])
                            /\ classes'[T].dict[n].fget = "lambda"
                            /\ TypeRead(T, n)' =
                                    Returned("type_get", T, n, body.ns[n].value)]_vars

\* a class statement has just built a class whose body made the declared
\* constant with @class_constant
C14_Witness ==
    /\ res.op = "class"
    /\ res.cls \in MetaClasses
    /\ \E n \in Published(res.cls) :
          /\ classes[res.cls].dict[n].fget = "def"
          /\ classes[res.cls].dict[n].name = n
          /\ TypeRead(res.cls, n).value = Lit(res.cls)

====
